---- MODULE Spec2Model ----
\* Model of binstar_client.Binstar: the response check, the three-request
\* upload (stage, digest, store, commit) and the conditional download.
EXTENDS Integers, Sequences, FiniteSets, TLC

VARIABLES
    pc,       \* position of the current call: idle, staged, digested, stored, redirect, done
    hasAuth,  \* session.headers carries 'Authorization'
    args,     \* arguments of the current (or last) call
    fd,       \* the caller's file object: length, position, seekability, bytes read
    local,    \* upload's locals b64md5 and size, and whether compute_hash ran
    obj,      \* keys of the stage response's JSON object
    s3data,   \* the store form: server fields plus Content-Length / Content-MD5
    log,      \* requests sent by the current call, in order
    phases,   \* phases entered by the current upload, in order, with their success
    seen,     \* statuses received by the current call (0: no such response)
    result,   \* what the last call returned or raised
    chk       \* inputs and results of a pair of _check_response evaluations

vars == <<pc, hasAuth, args, fd, local, obj, s3data, log, phases, seen, result, chk>>

\* ---------------------------------------------------------------- bounds
MaxLen == 2

\* ------------------------------------------------------------- constants
NoSize == -1                       \* size=None
NoStatus == 0                      \* no response received
NoCode == 0                        \* an error that carries no status code

Statuses == {200, 201, 302, 304, 401, 404, 409, 500}

\* Version strings are sequences of characters.
__version__ == <<"0", ".", "4", ".", "2">>
default_api_version == <<"0", ".", "2", ".", "1">>
NoHeader == <<>>
Versions == { NoHeader,
              <<"0", ".", "4", ".", "2">>,
              <<"0", ".", "5", ".", "0">>,
              <<"0", ".", "1", "0", ".", "0">> }

StageKeys == {"error", "s3_url", "s3form_data", "dist_id"}
TokenKeys == {"error", "token"}
ErrorKeys == {"error"}

\* A response body: not JSON at all, JSON that is not an object (array,
\* string, number, null), or a JSON object with some keys.
Bodies(Keys) == { [kind |-> "nonjson", keys |-> {}], [kind |-> "nonobj", keys |-> {}] }
                \cup { [kind |-> "obj", keys |-> K] : K \in SUBSET Keys }

\* Responses whose JSON objects draw their keys from Keys and whose Location
\* header is present or absent as Locs says.
Responses(Keys, Locs) == [status : Statuses, body : Bodies(Keys), ver : Versions, loc : Locs]

Streams == { f \in [len : 0..MaxLen, pos : 0..MaxLen, seekable : BOOLEAN, reads : {0}] :
                 f.pos <= f.len }

\* ------------------------------------------------------------ utils.pv
Digit(c) == CASE c = "0" -> 0 [] c = "1" -> 1 [] c = "2" -> 2 [] c = "3" -> 3
              [] c = "4" -> 4 [] c = "5" -> 5 [] c = "6" -> 6 [] c = "7" -> 7
              [] c = "8" -> 8 [] c = "9" -> 9

RECURSIVE pvParse(_, _, _)
pvParse(s, cur, acc) ==
    IF s = <<>> THEN Append(acc, cur)
    ELSE IF Head(s) = "." THEN pvParse(Tail(s), 0, Append(acc, cur))
    ELSE pvParse(Tail(s), cur * 10 + Digit(Head(s)), acc)

\* pv: "0.4.2" -> (0, 4, 2)
pv(s) == pvParse(s, 0, <<>>)

\* Python's tuple comparison a > b
RECURSIVE TupleGT(_, _)
TupleGT(a, b) ==
    IF a = <<>> THEN FALSE
    ELSE IF b = <<>> THEN TRUE
    ELSE IF Head(a) # Head(b) THEN Head(a) > Head(b)
    ELSE TupleGT(Tail(a), Tail(b))

\* ------------------------------------------------- Binstar._check_response
\* res.headers.get('x-binstar-api-version', '0.2.1')
api_version(res) == IF res.ver = NoHeader THEN default_api_version ELSE res.ver

ErrCls(status) ==
    CASE status = 401 -> "Unauthorized"
      [] status = 404 -> "NotFound"
      [] status = 409 -> "Conflict"
      [] OTHER        -> "BinstarError"

\* Mutant: every 2xx status is allowed by default.
DefaultAllowed_2xx == 200..299

\* allowed=[200]
DefaultAllowed == {200}

\* Mutant: a newer server version is raised instead of warned about.
check_response_strict(res, allowed) ==
    LET newer == TupleGT(pv(api_version(res)), pv(__version__)) IN
    IF newer
      THEN [raised |-> "BinstarError", code |-> res.status, msg |-> "table", warned |-> newer]
    ELSE IF res.status \in allowed
      THEN [raised |-> "none", code |-> NoCode, msg |-> "none", warned |-> newer]
    ELSE IF res.body.kind = "nonobj"
      THEN [raised |-> "AttributeError", code |-> NoCode, msg |-> "none", warned |-> newer]
    ELSE [raised |-> ErrCls(res.status),
          code   |-> res.status,
          msg    |-> IF res.body.kind = "obj" /\ "error" \in res.body.keys
                       THEN "body" ELSE "table",
          warned |-> newer]

\* The outcome of self._check_response(res, allowed): the exception raised
\* ("none": returns normally), the status code it carries, where its message
\* comes from, and whether warnings.warn was called.
check_response(res, allowed) ==
    LET newer == TupleGT(pv(api_version(res)), pv(__version__)) IN
    IF res.status \in allowed
      THEN [raised |-> "none", code |-> NoCode, msg |-> "none", warned |-> newer]
    ELSE IF res.body.kind = "nonobj"
      \* res.json() succeeds, data.get raises inside the else: branch
      THEN [raised |-> "AttributeError", code |-> NoCode, msg |-> "none", warned |-> newer]
    ELSE [raised |-> ErrCls(res.status),
          code   |-> res.status,
          msg    |-> IF res.body.kind = "obj" /\ "error" \in res.body.keys
                       THEN "body" ELSE "table",
          warned |-> newer]

\* ------------------------------------------------------------- results
NoResult == [kind |-> "none", err |-> "none", code |-> NoCode, value |-> "none", src |-> "none"]
Return(v) == [kind |-> "return", err |-> "none", code |-> NoCode, value |-> v, src |-> "none"]
Raise(e, c, s) == [kind |-> "raise", err |-> e, code |-> c, value |-> "none", src |-> s]
RaiseCheck(r) == Raise(r.raised, r.code, "check")

\* res.json() followed by a subscript with key k
JsonKeyError(body, k) ==
    IF body.kind = "nonjson" THEN "ValueError"
    ELSE IF body.kind = "nonobj" THEN "TypeError"
    ELSE IF k \notin body.keys THEN "KeyError"
    ELSE "none"

Request(kind, via, auth, url) ==
    [kind |-> kind, via |-> via, auth |-> auth, url |-> url,
     etag |-> FALSE, stream |-> FALSE, clen |-> NoSize, cmd5 |-> "none"]

NoArgs == [op |-> "none", md5 |-> FALSE, size |-> NoSize, p0 |-> 0]
NoStream == [len |-> 0, pos |-> 0, seekable |-> TRUE, reads |-> 0]
NoLocal == [b64md5 |-> "unbound", size |-> NoSize, hashed |-> FALSE]
NoS3data == [form |-> FALSE, clen |-> NoSize, cmd5 |-> "none"]
NoSeen == [stage |-> NoStatus, store |-> NoStatus, commit |-> NoStatus,
           primary |-> NoStatus, loc |-> FALSE, body |-> "none"]
NoChk == [phase |-> "off"]

\* ------------------------------------------------------- utils.compute_hash
\* Reads the stream to exhaustion in chunks; the size is the number of bytes
\* read, a declared size is not re-validated.
compute_hash(f, size) ==
    [fd     |-> [f EXCEPT !.pos = f.len, !.reads = f.reads + (f.len - f.pos)],
     b64md5 |-> "b64",
     size   |-> f.len - f.pos]

\* Mutant: the stream is left at its end.
SizeBySeek_noseekback(f) ==
    LET spos  == f.pos
        atEnd == [f EXCEPT !.pos = f.len]
    IN  [fd |-> atEnd, size |-> atEnd.pos - spos]

\* spos = fd.tell(); fd.seek(0, os.SEEK_END); size = fd.tell() - spos; fd.seek(spos)
SizeBySeek(f) ==
    LET spos  == f.pos
        atEnd == [f EXCEPT !.pos = f.len]
    IN  [fd |-> [atEnd EXCEPT !.pos = spos], size |-> atEnd.pos - spos]

\* Mutant: only the storage URL is looked up.
GrantError_urlonly(body) == JsonKeyError(body, "s3_url")

\* obj = res.json(); s3url = obj['s3_url']; s3data = obj['s3form_data']
GrantError(body) ==
    IF JsonKeyError(body, "s3_url") # "none" THEN JsonKeyError(body, "s3_url")
    ELSE JsonKeyError(body, "s3form_data")

\* Mutant: only error statuses abort the upload.
StoreFailed_lenient(status) == status >= 400

\* if s3res.status_code != 201
StoreFailed(status) == status # 201

\* Mutant: the store POST goes through self.session.
StoreVia_session == "session"

\* requests.post(s3url, ...): the module-level function, not self.session
StoreVia == "plain"

\* ------------------------------------------------------------------ Init
Init ==
    /\ pc = "idle"
    /\ hasAuth \in BOOLEAN
    /\ args = NoArgs
    /\ fd = NoStream
    /\ local = NoLocal
    /\ obj = {}
    /\ s3data = NoS3data
    /\ log = <<>>
    /\ phases = <<>>
    /\ seen = NoSeen
    /\ result = NoResult
    /\ chk = NoChk

\* Binstar(token, domain): a fresh session; the header is set iff token is truthy
Construct ==
    /\ pc = "idle"
    /\ \E token \in BOOLEAN : hasAuth' = token
    /\ args' = NoArgs
    /\ fd' = NoStream /\ local' = NoLocal /\ obj' = {} /\ s3data' = NoS3data
    /\ log' = <<>> /\ phases' = <<>> /\ seen' = NoSeen /\ result' = NoResult
    /\ UNCHANGED <<pc, chk>>

\* Binstar.authenticate
authenticate ==
    /\ pc = "idle"
    /\ \E res \in Responses(TokenKeys, {FALSE}) :
         LET r == check_response(res, DefaultAllowed)
             e == JsonKeyError(res.body, "token")
         IN  /\ log' = << Request("authentications", "session", hasAuth, "domain") >>
             /\ IF r.raised # "none"
                  THEN result' = RaiseCheck(r) /\ UNCHANGED hasAuth
                ELSE IF e # "none"
                  THEN result' = Raise(e, NoCode, "local") /\ UNCHANGED hasAuth
                ELSE result' = Return("token") /\ hasAuth' = TRUE
    /\ args' = [NoArgs EXCEPT !.op = "authenticate"]
    /\ fd' = NoStream /\ local' = NoLocal /\ obj' = {} /\ s3data' = NoS3data
    /\ phases' = <<>> /\ seen' = NoSeen
    /\ pc' = "done"
    /\ UNCHANGED chk

\* The call returns or raises to the caller: its frame is dropped, the client
\* (the session and its headers) lives on.
Finish ==
    /\ pc = "done"
    /\ pc' = "idle"
    /\ args' = NoArgs /\ fd' = NoStream /\ local' = NoLocal /\ obj' = {}
    /\ s3data' = NoS3data /\ log' = <<>> /\ phases' = <<>> /\ seen' = NoSeen
    /\ result' = NoResult
    /\ UNCHANGED <<hasAuth, chk>>

\* ---------------------------------------------------------------- upload
\* Lines 370-383: argument check, stage request, response check, grant lookup.
UploadStage ==
    /\ pc = "idle"
    /\ \E md5 \in BOOLEAN, size \in {NoSize} \cup (0..MaxLen),
          attrs \in {"None", "dict", "other"}, f \in Streams,
          res \in Responses(StageKeys, {FALSE}) :
         /\ args' = [op |-> "upload", md5 |-> md5, size |-> size, p0 |-> f.pos]
         /\ fd' = f
         /\ local' = [NoLocal EXCEPT !.size = size]
         /\ s3data' = NoS3data
         /\ IF attrs = "other"
              THEN /\ result' = Raise("TypeError", NoCode, "local")
                   /\ log' = <<>> /\ phases' = <<>> /\ seen' = NoSeen /\ obj' = {}
                   /\ pc' = "done"
            ELSE LET r == check_response(res, DefaultAllowed)
                     e == GrantError(res.body)
                 IN  /\ log' = << Request("stage", "session", hasAuth, "domain") >>
                     /\ seen' = [NoSeen EXCEPT !.stage = res.status, !.body = res.body.kind]
                     /\ obj' = IF r.raised = "none" THEN res.body.keys ELSE {}
                     /\ IF r.raised # "none"
                          THEN /\ result' = RaiseCheck(r)
                               /\ phases' = << [name |-> "stage", ok |-> FALSE] >>
                               /\ pc' = "done"
                        ELSE IF e # "none"
                          THEN /\ result' = Raise(e, NoCode, "local")
                               /\ phases' = << [name |-> "stage", ok |-> FALSE] >>
                               /\ pc' = "done"
                        ELSE /\ result' = NoResult
                             /\ phases' = << [name |-> "stage", ok |-> TRUE] >>
                             /\ pc' = "staged"
    /\ UNCHANGED <<hasAuth, chk>>

\* Lines 385-394: digest and size, then the two extra form fields.
UploadDigest ==
    /\ pc = "staged"
    /\ IF ~args.md5
         THEN LET h == compute_hash(fd, args.size) IN
              /\ fd' = h.fd
              /\ local' = [b64md5 |-> h.b64md5, size |-> h.size, hashed |-> TRUE]
              /\ s3data' = [form |-> TRUE, clen |-> h.size, cmd5 |-> h.b64md5]
              /\ phases' = Append(phases, [name |-> "digest", ok |-> TRUE])
              /\ pc' = "digested"
              /\ UNCHANGED result
       ELSE IF args.size = NoSize /\ ~fd.seekable
         \* fd.tell() / fd.seek() fail on a stream without random access
         THEN /\ result' = Raise("IOError", NoCode, "local")
              /\ phases' = Append(phases, [name |-> "digest", ok |-> FALSE])
              /\ pc' = "done"
              /\ UNCHANGED <<fd, local, s3data>>
       ELSE LET d == IF args.size = NoSize THEN SizeBySeek(fd)
                     ELSE [fd |-> fd, size |-> args.size]
            IN  /\ fd' = d.fd
                /\ local' = [local EXCEPT !.size = d.size]
                \* s3data['Content-Length'] = size succeeds; b64md5 was never
                \* assigned on this path, so line 394 raises UnboundLocalError
                /\ s3data' = [form |-> TRUE, clen |-> d.size, cmd5 |-> "none"]
                /\ result' = Raise("UnboundLocalError", NoCode, "local")
                /\ phases' = Append(phases, [name |-> "digest", ok |-> FALSE])
                /\ pc' = "done"
    /\ UNCHANGED <<hasAuth, args, obj, log, seen, chk>>

StoreRequest ==
    [Request("store", StoreVia, (StoreVia = "session") /\ hasAuth, "s3_url")
       EXCEPT !.clen = s3data.clen, !.cmd5 = s3data.cmd5]

\* Mutant: a failed store is attempted a second time with the same grant.
UploadStore_retry ==
    /\ pc = "digested"
    /\ \E status \in Statuses :
         /\ seen' = [seen EXCEPT !.store = status]
         /\ IF StoreFailed(status)
              THEN /\ log' = log \o << StoreRequest, StoreRequest >>
                   /\ result' = Raise("BinstarError", status, "store")
                   /\ phases' = phases \o << [name |-> "store", ok |-> FALSE],
                                             [name |-> "store", ok |-> FALSE] >>
                   /\ pc' = "done"
            ELSE /\ log' = Append(log, StoreRequest)
                 /\ phases' = Append(phases, [name |-> "store", ok |-> TRUE])
                 /\ pc' = "stored"
                 /\ UNCHANGED result
    /\ fd' = [fd EXCEPT !.pos = fd.len, !.reads = fd.reads + (fd.len - fd.pos)]
    /\ UNCHANGED <<hasAuth, args, local, obj, s3data, chk>>

\* Lines 396-405: the multipart body is streamed to the storage URL.
UploadStore ==
    /\ pc = "digested"
    /\ \E status \in Statuses :
         /\ log' = Append(log, StoreRequest)
         /\ seen' = [seen EXCEPT !.store = status]
         /\ IF StoreFailed(status)
              THEN /\ result' = Raise("BinstarError", status, "store")
                   /\ phases' = Append(phases, [name |-> "store", ok |-> FALSE])
                   /\ pc' = "done"
            ELSE /\ phases' = Append(phases, [name |-> "store", ok |-> TRUE])
                 /\ pc' = "stored"
                 /\ UNCHANGED result
    \* the body generator reads the rest of the file while it is sent
    /\ fd' = [fd EXCEPT !.pos = fd.len, !.reads = fd.reads + (fd.len - fd.pos)]
    /\ UNCHANGED <<hasAuth, args, local, obj, s3data, chk>>

\* Lines 407-413: commit request, response check, res.json().
UploadCommit ==
    /\ pc = "stored"
    /\ IF "dist_id" \notin obj
         THEN /\ result' = Raise("KeyError", NoCode, "local")
              /\ UNCHANGED <<log, seen, phases>>
       ELSE \E res \in Responses(ErrorKeys, {FALSE}) :
              LET r == check_response(res, DefaultAllowed) IN
              /\ log' = Append(log, Request("commit", "session", hasAuth, "domain"))
              /\ seen' = [seen EXCEPT !.commit = res.status, !.body = res.body.kind]
              /\ IF r.raised # "none"
                   THEN /\ result' = RaiseCheck(r)
                        /\ phases' = Append(phases, [name |-> "commit", ok |-> FALSE])
                 ELSE IF res.body.kind = "nonjson"
                   THEN /\ result' = Raise("ValueError", NoCode, "local")
                        /\ phases' = Append(phases, [name |-> "commit", ok |-> FALSE])
                 ELSE /\ result' = Return("json")
                      /\ phases' = Append(phases, [name |-> "commit", ok |-> TRUE])
    /\ pc' = "done"
    /\ UNCHANGED <<hasAuth, args, fd, local, obj, s3data, chk>>

\* -------------------------------------------------------------- download
\* Lines 340-350: the primary GET with allow_redirects=False.
DownloadPrimary ==
    /\ pc = "idle"
    /\ \E md5 \in {"None", "empty", "hex"}, res \in Responses(ErrorKeys, BOOLEAN) :
         LET r == check_response(res, {302, 304}) IN
         /\ args' = [NoArgs EXCEPT !.op = "download", !.md5 = (md5 = "hex")]
         /\ log' = << [Request("download", "session", hasAuth, "domain")
                         EXCEPT !.etag = (md5 = "hex")] >>
         /\ seen' = [NoSeen EXCEPT !.primary = res.status, !.loc = res.loc,
                                   !.body = res.body.kind]
         /\ IF r.raised # "none"
              THEN result' = RaiseCheck(r) /\ pc' = "done"
            ELSE IF res.status = 304
              THEN result' = Return("None") /\ pc' = "done"
            ELSE result' = NoResult /\ pc' = "redirect"
    /\ fd' = NoStream /\ local' = NoLocal /\ obj' = {} /\ s3data' = NoS3data
    /\ phases' = <<>>
    /\ UNCHANGED <<hasAuth, chk>>

\* Lines 351-353: requests.get(res.headers['location'], stream=True)
DownloadFollow ==
    /\ pc = "redirect"
    /\ IF ~seen.loc
         THEN result' = Raise("KeyError", NoCode, "local") /\ UNCHANGED log
       ELSE /\ log' = Append(log, [Request("follow", "plain", FALSE, "location")
                                     EXCEPT !.stream = TRUE])
            /\ result' = Return("res2")
    /\ pc' = "done"
    /\ UNCHANGED <<hasAuth, args, fd, local, obj, s3data, phases, seen, chk>>

Next ==
    \/ Construct
    \/ authenticate
    \/ UploadStage
    \/ UploadDigest
    \/ UploadStore
    \/ UploadCommit
    \/ DownloadPrimary
    \/ DownloadFollow
    \/ Finish

Spec == Init /\ [][Next]_vars

\* ------------------------------------- _check_response as a pure function
AllowedSets == { {200}, {201}, {302, 304} }

InitCheck ==
    /\ pc = "idle" /\ hasAuth = FALSE /\ args = NoArgs /\ fd = NoStream
    /\ local = NoLocal /\ obj = {} /\ s3data = NoS3data /\ log = <<>>
    /\ phases = <<>> /\ seen = NoSeen /\ result = NoResult
    /\ \E st \in Statuses, b \in Bodies(ErrorKeys), allowed \in AllowedSets,
          v1 \in Versions, v2 \in Versions :
         chk = [phase |-> "input",
                res1 |-> [status |-> st, body |-> b, ver |-> v1, loc |-> FALSE],
                res2 |-> [status |-> st, body |-> b, ver |-> v2, loc |-> FALSE],
                allowed |-> allowed]

\* Two calls of _check_response on responses that differ in the version header only.
CheckResponsePair ==
    /\ chk.phase = "input"
    /\ chk' = [phase |-> "checked", res1 |-> chk.res1, res2 |-> chk.res2,
               allowed |-> chk.allowed,
               r1 |-> check_response(chk.res1, chk.allowed),
               r2 |-> check_response(chk.res2, chk.allowed)]
    /\ UNCHANGED <<pc, hasAuth, args, fd, local, obj, s3data, log, phases, seen, result>>

NextCheck == CheckResponsePair

SpecCheck == InitCheck /\ [][NextCheck]_vars

\* ================================================================ claims
PhaseOrder == <<"stage", "digest", "store", "commit">>

Rank(kind) == CASE kind = "stage" -> 1 [] kind = "store" -> 3 [] kind = "commit" -> 4
                [] OTHER -> 0

Count(kind) == Cardinality({ i \in 1..Len(log) : log[i].kind = kind })

Is2xx(status) == status \in 200..299

\* C1: the phases of an upload occur in the order stage, digest, store,
\* commit, each at most once; a phase is entered only after every earlier
\* phase succeeded; the requests sent follow the same order, with at most one
\* store request per staging grant.
C1_PhasesInOrder ==
    /\ Len(phases) <= Len(PhaseOrder)
    /\ \A i \in 1..Len(phases) : phases[i].name = PhaseOrder[i]
    /\ \A i \in 1..Len(phases) : i < Len(phases) => phases[i].ok
    /\ args.op = "upload" =>
         /\ \A i, j \in 1..Len(log) : i < j => Rank(log[i].kind) < Rank(log[j].kind)
         /\ Count("stage") <= 1 /\ Count("store") <= 1 /\ Count("commit") <= 1

C1_Witness ==
    /\ pc = "done" /\ args.op = "upload"
    /\ Len(phases) = 4 /\ phases[4].ok
    /\ Len(log) = 3

\* C2: a store response with a status other than 201 ends the upload in a
\* BinstarError carrying that status; no commit request is sent, the store
\* request is not repeated and no second stage request is issued.
C2_StoreFailureIsTerminal ==
    (args.op = "upload" /\ seen.store \notin {NoStatus, 201}) =>
        /\ pc = "done"
        /\ result = Raise("BinstarError", seen.store, "store")
        /\ Count("commit") = 0 /\ seen.commit = NoStatus
        /\ Count("store") = 1
        /\ Count("stage") = 1

C2_Witness ==
    /\ args.op = "upload" /\ seen.store = 302 /\ pc = "done"
    /\ result.code = 302

\* C3: the result of download is determined by the status of the primary
\* GET: 304 returns None with no second request; 302 sends exactly one
\* second, streaming GET without a validator and returns its response; every
\* other status ends in a classified failure with no second request.
C3_DownloadByPrimaryStatus ==
    (args.op = "download" /\ pc = "done") =>
        IF seen.primary = 304
          THEN result = Return("None") /\ Len(log) = 1
        ELSE IF seen.primary = 302
          THEN /\ result = Return("res2")
               /\ Len(log) = 2
               /\ log[2].kind = "follow" /\ log[2].stream /\ ~log[2].etag
        ELSE /\ result.kind = "raise"
             /\ result.err \in {"BinstarError", "Unauthorized", "NotFound", "Conflict"}
             /\ result.code = seen.primary
             /\ Len(log) = 1

\* C4: when the caller supplies a digest and a size and the stage phase
\* succeeds, the hasher is not invoked, no byte of the stream is read before
\* the store request, and the store request is sent with Content-Length (the
\* supplied size) and Content-MD5 (the base64 digest).
C4_FastPathReachesStore ==
    (/\ args.op = "upload" /\ args.md5 /\ args.size # NoSize
     /\ Len(phases) >= 1 /\ phases[1].ok
     /\ pc \in {"stored", "done"}) =>
        /\ ~local.hashed
        /\ \E i \in 1..Len(log) :
             /\ log[i].kind = "store"
             /\ log[i].clen = args.size
             /\ log[i].cmd5 = "b64"

\* C5 as stated: the stage and commit phases succeed on every 2xx status;
\* the upload fails in the response check exactly when the stage or commit
\* status is outside 200..299, and after a 201 store a 2xx commit returns
\* the commit response's metadata.
C5_SuccessOn2xx ==
    (args.op = "upload" /\ pc = "done" /\ seen.stage # NoStatus) =>
        /\ (result.kind = "raise" /\ result.src = "check")
             <=> (\/ ~Is2xx(seen.stage)
                  \/ (seen.commit # NoStatus /\ ~Is2xx(seen.commit)))
        /\ (seen.store = 201 /\ Is2xx(seen.commit) /\ seen.body # "nonjson")
             => result = Return("json")

\* C5 amended: the stage and commit phases succeed only on status 200; the
\* upload ends in the error raised by the response check exactly when the
\* stage or commit status is other than 200, and after a 201 store a commit
\* response with status 200 and a JSON body is returned to the caller.
C5_SuccessOnly200 ==
    (args.op = "upload" /\ pc = "done" /\ seen.stage # NoStatus) =>
        /\ (result.kind = "raise" /\ result.src = "check")
             <=> (\/ seen.stage # 200
                  \/ (seen.commit # NoStatus /\ seen.commit # 200))
        /\ (result.kind = "raise" /\ result.src = "check") =>
             result.code \in {NoCode, seen.stage, seen.commit}
        /\ (seen.store = 201 /\ seen.commit = 200 /\ seen.body # "nonjson")
             => result = Return("json")

C5_Witness ==
    /\ args.op = "upload" /\ pc = "done"
    /\ seen.store = 201 /\ seen.commit = 201
    /\ result = Raise("BinstarError", 201, "check")

\* C6: the response check raises nothing when the status is allowed, and
\* otherwise raises one error that carries the status code and whose kind is
\* Unauthorized for 401, NotFound for 404, Conflict for 409 and the generic
\* BinstarError for every other status.
C6_ClassifiedError ==
    chk.phase = "checked" =>
        LET st == chk.res1.status
            r  == chk.r1
        IN  IF st \in chk.allowed
              THEN r.raised = "none"
            ELSE /\ r.code = st
                 /\ (st = 401 => r.raised = "Unauthorized")
                 /\ (st = 404 => r.raised = "NotFound")
                 /\ (st = 409 => r.raised = "Conflict")
                 /\ (st \notin {401, 404, 409} => r.raised = "BinstarError")

NewerVersions == { <<"0", ".", "5", ".", "0">>, <<"0", ".", "1", "0", ".", "0">> }

\* C7: two responses that differ only in the protocol-version header get the
\* same result from the response check (same success, or same error kind,
\* status and message); the version decides only whether a warning is
\* emitted, which happens exactly when the server's version is newer.
C7_VersionNeverChangesOutcome ==
    chk.phase = "checked" =>
        /\ chk.r1.raised = chk.r2.raised
        /\ chk.r1.code = chk.r2.code
        /\ chk.r1.msg = chk.r2.msg
        /\ chk.r1.warned <=> (chk.res1.ver \in NewerVersions)
        /\ chk.r2.warned <=> (chk.res2.ver \in NewerVersions)

C7_Witness ==
    /\ chk.phase = "checked"
    /\ chk.res1.ver = <<"0", ".", "1", "0", ".", "0">> /\ chk.res2.ver = NoHeader
    /\ chk.res1.status = 200 /\ chk.allowed = {200}
    /\ chk.r1.warned /\ ~chk.r2.warned
    /\ chk.r1.raised = "none" /\ chk.r2.raised = "none"

\* C8: when the stage response passes the response check but its body lacks
\* the storage URL or the storage form fields, the upload fails with a
\* structural error (KeyError, TypeError or ValueError) before the stream is
\* read and before any store or commit request is sent.
C8_MissingGrantFailsFast ==
    (/\ args.op = "upload" /\ seen.stage = 200
     /\ ~({"s3_url", "s3form_data"} \subseteq obj)) =>
        /\ pc = "done"
        /\ result.kind = "raise" /\ result.src = "local"
        /\ result.err \in {"KeyError", "TypeError", "ValueError"}
        /\ fd.reads = 0 /\ fd.pos = args.p0 /\ ~local.hashed
        /\ Len(log) = 1 /\ log[1].kind = "stage"
        /\ Len(phases) = 1

C8_Witness ==
    /\ args.op = "upload" /\ seen.stage = 200 /\ pc = "done"
    /\ "s3_url" \in obj /\ "s3form_data" \notin obj
    /\ result.err = "KeyError"
    /\ fd.len > 0

\* C9: with a digest supplied, no size, and a seekable stream of length n at
\* position p, the size derived for the store form is n - p, no byte is read
\* and the stream is again at position p after the derivation.
C9_SizeBySeek ==
    (/\ args.op = "upload" /\ args.md5 /\ args.size = NoSize /\ fd.seekable
     /\ Len(phases) >= 2) =>
        /\ local.size = fd.len - args.p0
        /\ s3data.clen = fd.len - args.p0
        /\ fd.pos = args.p0
        /\ fd.reads = 0
        /\ ~local.hashed

C9_Witness ==
    /\ args.op = "upload" /\ args.md5 /\ args.size = NoSize /\ fd.seekable
    /\ Len(phases) >= 2
    /\ fd.len = 2 /\ args.p0 = 1 /\ s3data.clen = 1 /\ fd.pos = 1

\* C10: the Authorization token header is carried only by requests sent
\* through the session to the API domain; the store POST and the
\* redirect-following GET never carry it.
C10_TokenOnlyToApi ==
    \A i \in 1..Len(log) :
        /\ log[i].auth => (log[i].via = "session" /\ log[i].url = "domain")
        /\ log[i].kind \in {"store", "follow"} => ~log[i].auth
        /\ log[i].url # "domain" => ~log[i].auth

C10_Witness ==
    /\ hasAuth
    /\ \E i, j \in 1..Len(log) :
         /\ log[i].kind = "stage" /\ log[i].auth
         /\ log[j].kind = "store" /\ ~log[j].auth

====
